---- MODULE Spec2Model ----
(***************************************************************************)
(* A model of i2hs, a MaxSAT solver based on implicit hitting sets:        *)
(*   - BiMap                 (src/i2hs/__init__.py)                        *)
(*   - Hypergraph.compute_hs (src/i2hs/_isinghs.py), heuristic and exact   *)
(*   - Solver.run            (src/i2hs/_solver.py)                         *)
(*                                                                         *)
(* Python lists are sequences.  Python indexes from 0 and TLA+ from 1, so  *)
(* edges[0][0] of the source is edges[1][1] here, and the edge indices     *)
(* kept in the watch sets are 1-based.  Vertices keep their Python         *)
(* numbers 0..n-1.                                                         *)
(***************************************************************************)
EXTENDS Integers, Sequences, FiniteSets, TLC

VARIABLES
    bimap,      \* a BiMap under test: [key_to_value, value_to_key]
    inserted,   \* history: the <<key, value>> pairs given to bimap's insert, in order
    h,          \* a Hypergraph: [n, edges, weights]
    call,       \* the compute_hs call on h in progress or last finished
    solver,     \* a Solver's phi and relaxation (its hypergraph is h, its mapping bimap)
    sat,        \* the SAT engine: what its last solve call was about
    run         \* Solver.run: where it is, its locals and what it returned

vars == <<bimap, inserted, h, call, solver, sat, run>>

(***************************************************************************)
(* Bounds of the model.                                                    *)
(***************************************************************************)
MaxInserts == 3     \* insert calls on the BiMap under test
MaxSize    == 6     \* size of a hypergraph: its edges plus their vertex occurrences
MaxWeight  == 1     \* total weight of the vertices of a hypergraph
MaxDepth   == 2     \* nested repair calls before the interpreter's recursion limit
MaxClauses == 3     \* clauses, hard and soft, of a WCNF instance
MaxSoftWeight == 3  \* total weight of the soft clauses of a WCNF instance
MaxCores   == 4     \* cores turned into edges during one run
MaxLargeSoft == 2   \* soft clauses of an instance where rounding is explored
MaxLargeWeight == 4 \* largest weight of a soft clause of such an instance
Precision  == 2     \* bits of a float's significand (53 in the interpreter)

\* The vertex universe of the hypergraphs explored: n = 3, as in the
\* documented scenarios (edges [[0,1],[1,2]] and [[2]]).
Vertices == {0, 1, 2}

\* Python's None as dict.get returns it: a value that is neither a key (an
\* identifier >= 1) nor a vertex (>= 0) of any BiMap here.
None == -1

(***************************************************************************)
(* Small helpers on sequences and sets.                                    *)
(***************************************************************************)
Range(s) == {s[k] : k \in 1..Len(s)}

RECURSIVE SumOver(_, _)
SumOver(S, f) ==
    IF S = {} THEN 0
    ELSE LET x == CHOOSE y \in S : TRUE IN f[x] + SumOver(S \ {x}, f)

RECURSIVE SortedSeq(_)
SortedSeq(S) ==
    IF S = {} THEN <<>>
    ELSE LET m == CHOOSE x \in S : \A y \in S : x <= y
         IN <<m>> \o SortedSeq(S \ {m})

Abs(x) == IF x < 0 THEN -x ELSE x

(***************************************************************************)
(* BiMap: two dicts.  A dict is a function on its set of keys.             *)
(***************************************************************************)
BiMapNew == [key_to_value |-> <<>>, value_to_key |-> <<>>]

\* A slip that writes the backward entry under the key instead of the value.
insert_swapped(m, key, value) ==
    [key_to_value |-> (key :> value) @@ m.key_to_value,
     value_to_key |-> (key :> value) @@ m.value_to_key]

\* self.key_to_value[key] = value; self.value_to_key[value] = key
insert(m, key, value) ==
    [key_to_value |-> (key :> value) @@ m.key_to_value,
     value_to_key |-> (value :> key) @@ m.value_to_key]

\* dict.get: the entry, or None when there is none
get_value(m, key) ==
    IF key \in DOMAIN m.key_to_value THEN m.key_to_value[key] ELSE None

\* A slip that hands the value back instead of looking it up.
get_key_unmapped(m, value) == value

get_key(m, value) ==
    IF value \in DOMAIN m.value_to_key THEN m.value_to_key[value] ELSE None

(***************************************************************************)
(* Hypergraph: construction and the plain accessors.                       *)
(***************************************************************************)
HypergraphNew(n) ==
    [n |-> n, edges |-> <<>>, weights |-> [v \in 0..(n - 1) |-> 0]]

\* A slip that puts the new edge in front.
add_edge_front(g, e) == [g EXCEPT !.edges = <<e>> \o @]

\* line 70: self.edges.append(e)
add_edge(g, e) == [g EXCEPT !.edges = Append(@, e)]

set_weight(g, v, w) == [g EXCEPT !.weights[v] = w]

get_weight(g, v) == g.weights[v]

(***************************************************************************)
(* Hypergraph._hs_simple, the greedy heuristic.                            *)
(* Its locals: result (a list), watch (vertex -> set of edge indices) and  *)
(* queue, the heap.  heapq pops the least tuple, so the heap is modelled   *)
(* by the set of its entries: the degrees pushed for one vertex decrease   *)
(* strictly, so no entry is ever in the heap twice.                        *)
(***************************************************************************)
NoCall == [mode |-> "idle", status |-> "idle", result |-> <<>>,
           watch |-> <<>>, queue |-> {},
           edges |-> <<>>, weights |-> <<>>, depth |-> 0, exact |-> TRUE]

\* An exception leaves the call: the locals of the frames it unwinds are gone.
raised(c, exception) == [NoCall EXCEPT !.mode = c.mode, !.status = exception]

\* A slip that keys the heap by degree plus weight.
hs_init_weighted(g) ==
    LET watch == [v \in 0..(g.n - 1) |->
                    {i \in 1..Len(g.edges) : v \in Range(g.edges[i])}]
    IN [NoCall EXCEPT
            !.mode   = "heuristic",
            !.status = "running",
            !.watch  = watch,
            !.queue  = {<<-Cardinality(watch[v]) - g.weights[v], v>> :
                            v \in 0..(g.n - 1)}]

\* lines 148-158: result, watch and the heap holding every vertex once
hs_init(g) ==
    LET watch == [v \in 0..(g.n - 1) |->
                    {i \in 1..Len(g.edges) : v \in Range(g.edges[i])}]
    IN [NoCall EXCEPT
            !.mode   = "heuristic",
            !.status = "running",
            !.watch  = watch,
            !.queue  = {<<-Cardinality(watch[v]), v>> : v \in 0..(g.n - 1)}]

\* tuple comparison of Python, on (degree, vertex) pairs
TupleLess(a, b) == a[1] < b[1] \/ (a[1] = b[1] /\ a[2] < b[2])

\* the entry heapq.heappop returns
heap_min(q) == CHOOSE a \in q : \A b \in q : a = b \/ TupleLess(a, b)

\* lines 168-170, from position k of edge i:
\*   for w in self.edges[i]: watch[w].remove(i); heappush(queue, (-len(watch[w]), w))
\* set.remove raises KeyError when i is not in the set.
RECURSIVE hs_remove_edge(_, _, _, _)
hs_remove_edge(s, e, i, k) ==
    IF k > Len(e) \/ s.status # "running" THEN s
    ELSE LET w == e[k] IN
         IF i \notin s.watch[w] THEN raised(s, "KeyError")
         ELSE LET wt == [s.watch EXCEPT ![w] = @ \ {i}]
              IN hs_remove_edge(
                    [s EXCEPT !.watch = wt,
                              !.queue = @ \cup {<<-Cardinality(wt[w]), w>>}],
                    e, i, k + 1)

\* A slip that leaves the edges of the selected vertex in the watch sets.
hs_cover_none(s, g, I) == s

\* line 167: for i in watch[v].copy().  The order in which a Python set is
\* walked does not change the watch sets or the heap entries left behind;
\* the model walks it in increasing order.
RECURSIVE hs_cover(_, _, _)
hs_cover(s, g, I) ==
    IF I = {} \/ s.status # "running" THEN s
    ELSE LET i == CHOOSE x \in I : \A y \in I : x <= y
         IN hs_cover(hs_remove_edge(s, g.edges[i], i, 1), g, I \ {i})

\* A slip that leaves out the test of line 162: stale entries are used.
hs_iter_stale_kept(s, g) ==
    LET top    == heap_min(s.queue)
        deg    == top[1]
        v      == top[2]
        popped == [s EXCEPT !.queue = @ \ {top}]
    IN IF deg = 0 THEN [popped EXCEPT !.status = "returned"]
       ELSE hs_cover([popped EXCEPT !.result = Append(@, v)], g, s.watch[v])

\* lines 160-170: one pass of the while loop (the heap is not empty)
hs_iter(s, g) ==
    LET top    == heap_min(s.queue)
        deg    == top[1]
        v      == top[2]
        popped == [s EXCEPT !.queue = @ \ {top}]
    IN IF -deg # Cardinality(s.watch[v]) THEN popped
       ELSE IF deg = 0 THEN [popped EXCEPT !.status = "returned"]
       ELSE hs_cover([popped EXCEPT !.result = Append(@, v)], g, s.watch[v])

\* the loop test of line 160 and one pass
hs_step(s, g) ==
    IF s.queue = {} THEN [s EXCEPT !.status = "returned"] ELSE hs_iter(s, g)

\* _hs_simple run to its end
RECURSIVE hs_loop(_, _)
hs_loop(s, g) == IF s.status # "running" THEN s ELSE hs_loop(hs_step(s, g), g)

hs_simple(g) == hs_loop(hs_init(g), g)

(***************************************************************************)
(* Hypergraph.compute_hs without the heuristic: the optimization backend   *)
(* and the repair.                                                         *)
(*                                                                         *)
(* _create_model (lines 174-210) builds the objective sum(weights * q) and *)
(* one constraint sum(q[v] for v in e) >= 1 per edge, each with the        *)
(* penalty weight rho.  A violated constraint has sum = 0 and costs rho;   *)
(* a satisfied one costs nothing.  energy is that penalized objective on   *)
(* the selection x of vertices.                                            *)
(***************************************************************************)
hits(sel, e) == \E k \in 1..Len(e) : e[k] \in sel

hits_all(sel, edges) == \A i \in 1..Len(edges) : hits(sel, edges[i])

weight_of(sel, weights) == SumOver(sel, weights)

\* A slip that drops the penalty weight.
rho_zero(weights) == 0

\* line 182: rho = sum(map(lambda x: abs(x), self.weights)) + 1
rho(weights) ==
    SumOver(DOMAIN weights, [v \in DOMAIN weights |-> Abs(weights[v])]) + 1

energy(x, edges, weights) ==
    weight_of(x, weights)
        + rho(weights) * Cardinality({i \in 1..Len(edges) : ~hits(x, edges[i])})

\* The selections an exact backend may return: the minimizers of the model.
minimizers(edges, weights) ==
    {x \in SUBSET (DOMAIN weights) :
        \A y \in SUBSET (DOMAIN weights) :
            energy(x, edges, weights) <= energy(y, edges, weights)}

\* A slip that finds every edge hit.
unhit_none(edges, result) == <<>>

\* lines 130-133: the edges no vertex of result is in
unhit(edges, result) == SelectSeq(edges, LAMBDA e : ~hits(Range(result), e))

\* lines 116-122: the call, up to the backend's answer.  The fields edges,
\* weights and depth are those of the Hypergraph object whose compute_hs is
\* waiting for the backend: self at depth 1, a repair model h below.
exact_begin(g) ==
    IF Len(g.edges) = 0
    THEN [NoCall EXCEPT !.mode = "exact", !.status = "returned"]
    ELSE [NoCall EXCEPT !.mode = "exact", !.status = "ipu",
                        !.edges = g.edges, !.weights = g.weights, !.depth = 1]

\* A slip that leaves out the forced selection of lines 126-127.
exact_result_unforced(c, S) ==
    LET result == SortedSeq(S)
        left   == unhit(c.edges, result)
    IN IF Len(left) = 0
       THEN [c EXCEPT !.status = "returned", !.result = @ \o result]
       ELSE IF c.depth >= MaxDepth THEN raised(c, "RecursionError")
       ELSE [c EXCEPT !.result  = @ \o result,
                      !.edges   = left,
                      !.weights = [v \in DOMAIN c.weights |-> 0],
                      !.depth   = @ + 1]

\* A slip that leaves the repair out: lines 130-139 dropped.
exact_result_norepair(c, S) ==
    IF S = {} /\ Len(c.edges[1]) = 0 THEN raised(c, "IndexError")
    ELSE [c EXCEPT !.status = "returned",
                   !.result = @ \o (IF S = {} THEN <<c.edges[1][1]>>
                                              ELSE SortedSeq(S))]

\* lines 123-141, for the backend's answer S: the set of vertices v < n whose
\* value in the returned vector exceeds 0.0001 (_solve_model, lines 237-241,
\* lists them in increasing order).  The caller of a repair call only appends
\* what the call returns to its own result and returns it (lines 138-141), so
\* the result of the outermost call is the concatenation kept in c.result.
\* A repair model is a fresh Hypergraph(self.n, self.config): its weights
\* are those of the constructor.  c.exact records that every answer so far
\* was a minimizer of the model it was asked about.  An empty first edge makes
\* edges[0][0] raise IndexError; a repair call nested deeper than the
\* interpreter allows raises RecursionError.
exact_result(c, S) ==
    LET decoded == SortedSeq(S)
        result  == IF Len(decoded) = 0 THEN <<c.edges[1][1]>> ELSE decoded
        left    == unhit(c.edges, result)
        opt     == c.exact /\ S \in minimizers(c.edges, c.weights)
    IN IF Len(decoded) = 0 /\ Len(c.edges[1]) = 0
       THEN raised(c, "IndexError")
       ELSE IF Len(left) = 0
       THEN [c EXCEPT !.status = "returned", !.result = @ \o result, !.exact = opt]
       ELSE IF c.depth >= MaxDepth
       THEN raised(c, "RecursionError")
       ELSE [c EXCEPT !.result  = @ \o result,
                      !.edges   = left,
                      !.weights = [v \in DOMAIN c.weights |-> 0],
                      !.depth   = @ + 1,
                      !.exact   = opt]

\* compute_hs in exact mode from call record c on, to its end: every record
\* it can end in, over all the answers the backend can give
RECURSIVE exact_runs(_)
exact_runs(c) ==
    IF c.status # "ipu" THEN {c}
    ELSE UNION {exact_runs(exact_result(c, S)) : S \in SUBSET DOMAIN c.weights}

(***************************************************************************)
(* Weights are Python floats (main.py line 87): binary floating point,     *)
(* every sum and difference rounded to the nearest value with Precision    *)
(* significant bits, ties to the even significand.  The weights explored   *)
(* are whole numbers, so no exponent below 0 is needed.                    *)
(***************************************************************************)
RECURSIVE Ulp(_)
Ulp(x) == IF x < 2^Precision THEN 1 ELSE 2 * Ulp(x \div 2)

\* the float nearest to the number x
RECURSIVE fl(_)
fl(x) ==
    IF x < 0 THEN 0 - fl(0 - x)
    ELSE LET u == Ulp(x)
             q == x \div u
             r == x % u
         IN IF 2 * r < u \/ (2 * r = u /\ q % 2 = 0) THEN q * u
            ELSE (q + 1) * u

\* sum(map(f, S)) of lines 93-100, from the partial sum acc on: the set S of
\* small integers is iterated in increasing order
RECURSIVE fsum(_, _, _)
fsum(acc, S, f) ==
    IF S = {} THEN acc
    ELSE LET v == CHOOSE x \in S : \A y \in S : x <= y
         IN fsum(fl(acc + f[v]), S \ {v}, f)

(***************************************************************************)
(* The input of the solver, as main.py builds it from a WCNF file.         *)
(* A clause is the set of its literals (non-zero integers); an instance    *)
(* has a set of hard clauses and a list of soft clauses with weights.      *)
(***************************************************************************)
\* the variables x1, x2 the clauses of the instances explored are about
Lits == {1, -1, 2, -2}

Clauses == {c \in SUBSET Lits : c # {} /\ \A l \in c : -l \notin c}

SoftClauses == [weight : 1..MaxSoftWeight, clause : Clauses]

total_weight(soft) ==
    SumOver(1..Len(soft), [i \in 1..Len(soft) |-> soft[i].weight])

Instances ==
    UNION {[hard : {H \in SUBSET Clauses : Cardinality(H) <= MaxClauses - k},
            soft : {s \in [1..k -> SoftClauses] :
                        total_weight(s) <= MaxSoftWeight}] :
           k \in 0..MaxClauses}

\* no hard clause, unit soft clauses on x1, weights large enough for sums
\* that no float holds
LargeWeightInstances ==
    [hard : {{}},
     soft : UNION {[1..k -> [weight : 1..MaxLargeWeight, clause : {{1}, {-1}}]] :
                    k \in 1..MaxLargeSoft}]

Max(S) == CHOOSE x \in S : \A y \in S : y <= x

\* main.py lines 71-79: free, the largest variable any clause line names
wcnf_free(inst) ==
    Max({0} \cup {Abs(l) : l \in UNION (inst.hard
                    \cup {inst.soft[i].clause : i \in 1..Len(inst.soft)})})

\* main.py lines 83-93: the hard clauses, and every soft clause with the
\* negated relaxation variable free + i appended
wcnf_phi(inst) ==
    inst.hard \cup {inst.soft[i].clause \cup {-(wcnf_free(inst) + i)} :
                        i \in 1..Len(inst.soft)}

\* main.py lines 87 and 90-93: relaxation, the list of (variable, weight)
\* pairs, the weight as float(w)
wcnf_relaxation(inst) ==
    [i \in 1..Len(inst.soft) |->
        <<wcnf_free(inst) + i, fl(inst.soft[i].weight)>>]

(***************************************************************************)
(* The SAT engine (pysat's Solver, used through solve, get_model and       *)
(* get_core).  An assignment is the set of the variables it makes true.    *)
(* The engine is free in the model and in the core it reports, so both are *)
(* chosen when they are asked for, among all that fit the last solve call. *)
(***************************************************************************)
NoSat == [status |-> FALSE, assumption |-> {}]

Holds(l, T) == IF l > 0 THEN l \in T ELSE -l \notin T

\* the variables the engine knows: those of the clauses it was booted with
NofVars(clauses) == Max({0} \cup {Abs(l) : l \in UNION clauses})

Models(clauses, assumption) ==
    {T \in SUBSET (1..NofVars(clauses)) :
        /\ \A c \in clauses : \E l \in c : Holds(l, T)
        /\ \A a \in assumption : Holds(a, T)}

\* A slip that reports every query satisfiable.
sat_solve_true(clauses, assumption) ==
    [status |-> TRUE, assumption |-> assumption]

\* _run_satsolver, lines 40-51: satsolver.solve(assumptions = assumption)
sat_solve(clauses, assumption) ==
    [status |-> Models(clauses, assumption) # {}, assumption |-> assumption]

\* A slip that hands out a model of the clauses alone, assumptions ignored.
get_model_unassumed(clauses, s) ==
    {[v \in 1..NofVars(clauses) |-> IF v \in T THEN v ELSE -v] :
        T \in Models(clauses, {})}

\* satsolver.get_model(): a list with one literal per variable, for a model of
\* the last solve call; nothing (here the empty list, which line 91 treats
\* alike) when that call failed.
get_model(clauses, s) ==
    IF s.status
    THEN {[v \in 1..NofVars(clauses) |-> IF v \in T THEN v ELSE -v] :
            T \in Models(clauses, s.assumption)}
    ELSE {<<>>}

\* satsolver.get_core() after a failed solve call: a list of assumption
\* literals that cannot hold together with the clauses, or nothing.
get_core(clauses, s) ==
    {[none |-> FALSE, lits |-> SortedSeq(C)] :
        C \in {D \in SUBSET s.assumption : Models(clauses, D) = {}}}
    \cup {[none |-> TRUE, lits |-> <<>>]}

(***************************************************************************)
(* Solver.                                                                 *)
(***************************************************************************)
NoSolver == [phi |-> {}, relaxation |-> <<>>]

NoRet == [absent |-> TRUE, assignment |-> <<>>, cost |-> 0, fitness |-> 0]

NoCore == [none |-> FALSE, lits |-> <<>>]

NoRun == [pc |-> "idle", hittingset |-> {}, assumption |-> {}, core |-> NoCore,
          exit |-> "", model |-> <<>>, ret |-> NoRet]

\* Solver.__init__, lines 36-38, from the i-th pair on
RECURSIVE solver_fill(_, _, _, _)
solver_fill(g, m, relaxation, i) ==
    IF i > Len(relaxation) THEN [hypergraph |-> g, mapping |-> m]
    ELSE solver_fill(set_weight(g, i - 1, relaxation[i][2]),
                     insert(m, relaxation[i][1], i - 1),
                     relaxation, i + 1)

\* Solver.__init__, lines 31-38
SolverNew(phi, relaxation) ==
    solver_fill(HypergraphNew(Len(relaxation)), BiMapNew, relaxation, 1)

\* line 67: relaxation_vars
relaxation_vars(relaxation) == {relaxation[i][1] : i \in 1..Len(relaxation)}

\* lines 72 and 77: hittingset, the set of the relaxation variables that the
\* vertices of the list hs are mapped to
hittingset_of(m, hs) == {get_key(m, hs[k]) : k \in 1..Len(hs)}

\* A slip that assumes every soft constraint, whatever the hitting set.
assumption_of_all(m, relaxation, hs) == relaxation_vars(relaxation)

\* lines 72-73 and 77-78: the hitting set mapped to relaxation variables, and
\* the assumption left
assumption_of(m, relaxation, hs) ==
    relaxation_vars(relaxation) \ {get_key(m, hs[k]) : k \in 1..Len(hs)}

\* _extract_core, lines 53-60.  Line 56 evaluates False and goes on, so with
\* no core map() is called on None and raises TypeError; otherwise the edge
\* is added and the method returns True.
extract_core(g, m, core) ==
    IF core.none
    THEN [raised |-> TRUE, ok |-> FALSE, hypergraph |-> g]
    ELSE [raised |-> FALSE, ok |-> TRUE,
          hypergraph |-> add_edge(g, [k \in 1..Len(core.lits) |->
                                        get_value(m, core.lits[k])])]

\* A slip that counts the satisfied soft clauses as the cost.
result_of_inverted(g, m, relaxation, model) ==
    LET rv      == relaxation_vars(relaxation)
        w       == [v \in rv |-> get_weight(g, get_value(m, v))]
        cost    == fsum(0, {v \in rv : v \in Range(model)}, w)
        fitness == fl(fsum(0, rv, w) - cost)
    IN [absent |-> FALSE,
        assignment |-> SubSeq(model, 1, Len(model) - Cardinality(rv)),
        cost |-> cost, fitness |-> fitness]

\* lines 91-102: the result, from the model of the last solve call
result_of(g, m, relaxation, model) ==
    IF Len(model) = 0 THEN NoRet
    ELSE LET rv      == relaxation_vars(relaxation)
             w       == [v \in rv |-> get_weight(g, get_value(m, v))]
             cost    == fsum(0, {v \in rv : v \notin Range(model)}, w)
             fitness == fl(fsum(0, rv, w) - cost)
         IN [absent |-> FALSE,
             assignment |-> SubSeq(model, 1, Len(model) - Cardinality(rv)),
             cost |-> cost, fitness |-> fitness]

(***************************************************************************)
(* Solver.run on an instance.                                              *)
(* run.pc: "heuristic" before line 72, "exact" during line 77, "core"      *)
(* before _extract_core (lines 84 and 86), "done" after the return,        *)
(* "raised" after an exception left run.  run.exit is how the loop was     *)
(* left: "converged" by the break of line 83, "unsat" by those of lines 85 *)
(* and 87, or the name of the exception.                                   *)
(***************************************************************************)
InitOn(instances) ==
    \E inst \in instances :
        LET phi        == wcnf_phi(inst)
            relaxation == wcnf_relaxation(inst)
            made       == SolverNew(phi, relaxation)
        IN /\ solver = [phi |-> phi, relaxation |-> relaxation]
           /\ h = made.hypergraph
           /\ bimap = made.mapping
           /\ inserted = <<>>
           /\ call = NoCall
           /\ sat = NoSat
           /\ run = [NoRun EXCEPT !.pc = "heuristic"]

InitRun == InitOn(Instances)

InitLargeWeight == InitOn(LargeWeightInstances)

Raise(exception) == [run EXCEPT !.pc = "raised", !.exit = exception]

\* A slip that goes back to the head of the loop after the break.
Return_loop(r, exit, model) ==
    [r EXCEPT !.pc = "heuristic", !.exit = exit, !.model = model,
              !.ret = result_of(h, bimap, solver.relaxation, model)]

\* lines 89-102 after a break
Return(r, exit, model) ==
    [r EXCEPT !.pc = "done", !.exit = exit, !.model = model,
              !.ret = result_of(h, bimap, solver.relaxation, model)]

\* lines 72-74: the heuristic hitting set and the query under A1
RunHeuristic ==
    /\ run.pc = "heuristic"
    /\ LET r == hs_simple(h) IN
       IF r.status # "returned"
       THEN /\ run' = Raise(r.status)
            /\ UNCHANGED sat
       ELSE LET a == assumption_of(bimap, solver.relaxation, r.result)
                s == sat_solve(solver.phi, a)
            IN /\ sat' = s
               /\ run' = [run EXCEPT
                            !.pc = IF s.status THEN "exact" ELSE "core",
                            !.hittingset = hittingset_of(bimap, r.result),
                            !.assumption = a]
    /\ UNCHANGED <<h, bimap, inserted, call, solver>>

\* lines 77-83: the exact hitting set, whatever the backend answers to the
\* call and to the repair calls below it; the query under A2; on success the
\* break and lines 89-102
RunExact ==
    /\ run.pc = "exact"
    /\ \E c \in exact_runs(exact_begin(h)) :
         IF c.status # "returned"
         THEN /\ run' = Raise(c.status)
              /\ UNCHANGED sat
         ELSE LET a == assumption_of(bimap, solver.relaxation, c.result)
                  s == sat_solve(solver.phi, a)
                  r == [run EXCEPT
                          !.hittingset = hittingset_of(bimap, c.result),
                          !.assumption = a]
              IN /\ sat' = s
                 /\ IF s.status
                    THEN \E model \in get_model(solver.phi, s) :
                           run' = Return(r, "converged", model)
                    ELSE run' = [r EXCEPT !.pc = "core"]
    /\ UNCHANGED <<h, bimap, inserted, call, solver>>

\* lines 84-87: _extract_core after a failed query; when it reports failure,
\* the break and lines 89-102
RunExtractCore ==
    /\ run.pc = "core"
    /\ Len(h.edges) < MaxCores
    /\ \E core \in get_core(solver.phi, sat) :
         LET r == extract_core(h, bimap, core) IN
         IF r.raised
         THEN /\ run' = [Raise("TypeError") EXCEPT !.core = core]
              /\ UNCHANGED h
         ELSE /\ h' = r.hypergraph
              /\ IF r.ok
                 THEN run' = [run EXCEPT !.pc = "heuristic", !.core = core]
                 ELSE \E model \in get_model(solver.phi, sat) :
                        run' = Return([run EXCEPT !.core = core], "unsat", model)
    /\ UNCHANGED <<bimap, inserted, call, solver, sat>>

NextRun ==
    \/ RunHeuristic
    \/ RunExact
    \/ RunExtractCore

SpecRun == InitRun /\ [][NextRun]_vars

SpecLargeWeight == InitLargeWeight /\ [][NextRun]_vars

(***************************************************************************)
(* The hypergraph under test: edges are added, weights set, and compute_hs *)
(* called in either mode, one call at a time.                              *)
(***************************************************************************)
Busy == call.status \in {"running", "ipu"}

EdgeSize(edges) ==
    SumOver(1..Len(edges), [i \in 1..Len(edges) |-> 1 + Len(edges[i])])

\* the lists of vertices that still fit into the hypergraph g
EdgePool(g) ==
    UNION {[1..k -> Vertices] : k \in 0..(MaxSize - EdgeSize(g.edges) - 1)}

InitHS ==
    /\ h = HypergraphNew(Cardinality(Vertices))
    /\ call = NoCall
    /\ bimap = BiMapNew
    /\ inserted = <<>>
    /\ solver = NoSolver
    /\ sat = NoSat
    /\ run = NoRun

AddEdge(e) ==
    /\ ~Busy
    /\ e \in EdgePool(h)
    /\ h' = add_edge(h, e)
    /\ call' = NoCall
    /\ UNCHANGED <<bimap, inserted, solver, sat, run>>

\* Weights are set right after construction, before any edge is added
\* (Solver.__init__), and stay as they are.
SetWeight(v, w) ==
    /\ ~Busy
    /\ Len(h.edges) = 0
    /\ h' = set_weight(h, v, w)
    /\ h' # h
    /\ weight_of(Vertices, h'.weights) <= MaxWeight
    /\ call' = NoCall
    /\ UNCHANGED <<bimap, inserted, solver, sat, run>>

HeuristicCall ==
    /\ ~Busy
    /\ call' = hs_init(h)
    /\ UNCHANGED <<h, bimap, inserted, solver, sat, run>>

HeuristicStep ==
    /\ call.mode = "heuristic"
    /\ call.status = "running"
    /\ call' = hs_step(call, h)
    /\ UNCHANGED <<h, bimap, inserted, solver, sat, run>>

ExactCall ==
    /\ ~Busy
    /\ call' = exact_begin(h)
    /\ UNCHANGED <<h, bimap, inserted, solver, sat, run>>

IpuResult(S) ==
    /\ call.mode = "exact"
    /\ call.status = "ipu"
    /\ call' = exact_result(call, S)
    /\ UNCHANGED <<h, bimap, inserted, solver, sat, run>>

NextHS ==
    \/ \E e \in EdgePool(h) : AddEdge(e)
    \/ \E v \in Vertices, w \in 0..MaxWeight : SetWeight(v, w)
    \/ HeuristicCall
    \/ HeuristicStep
    \/ ExactCall
    \/ \E S \in SUBSET Vertices : IpuResult(S)

SpecHS == InitHS /\ [][NextHS]_vars

(***************************************************************************)
(* The BiMap under test: pairs are inserted one at a time.                 *)
(***************************************************************************)
\* Keys are identifiers of soft clauses, values are vertices.
BiMapKeys == {3, 4, 5}

InitBiMap ==
    /\ bimap = BiMapNew
    /\ inserted = <<>>
    /\ h = HypergraphNew(0)
    /\ call = NoCall
    /\ solver = NoSolver
    /\ sat = NoSat
    /\ run = NoRun

Insert(key, value) ==
    /\ Len(inserted) < MaxInserts
    /\ bimap' = insert(bimap, key, value)
    /\ inserted' = Append(inserted, <<key, value>>)
    /\ UNCHANGED <<h, call, solver, sat, run>>

NextBiMap == \E key \in BiMapKeys, value \in Vertices : Insert(key, value)

SpecBiMap == InitBiMap /\ [][NextBiMap]_vars

(***************************************************************************)
(* Properties of compute_hs.                                               *)
(***************************************************************************)
Finished(mode) == call.mode = mode /\ call.status \notin {"idle", "running", "ipu"}

Returned(mode) == call.mode = mode /\ call.status = "returned"

NoEmptyEdge == \A i \in 1..Len(h.edges) : Len(h.edges[i]) > 0

\* C1: for every hypergraph whose edges are all non-empty, the heuristic
\* call returns, and what it returns intersects every stored edge.
C1_Original ==
    (Finished("heuristic") /\ NoEmptyEdge)
        => (call.status = "returned" /\ hits_all(Range(call.result), h.edges))

\* C2: for every hypergraph (its edges non-empty, as the data model has
\* them) and whatever the backend answers, the exact call, repair included,
\* returns, and what it returns intersects every stored edge.
C2_Original ==
    (Finished("exact") /\ NoEmptyEdge)
        => (call.status = "returned" /\ hits_all(Range(call.result), h.edges))

IsHittingSet(x) == hits_all(x, h.edges)

MinimumWeight(x) ==
    \A y \in SUBSET Vertices :
        IsHittingSet(y) => weight_of(x, h.weights) <= weight_of(y, h.weights)

\* C6 as stated: the set returned by the exact call is a hitting set of
\* minimum total weight.
C6_Original ==
    Returned("exact")
        => (IsHittingSet(Range(call.result)) /\ MinimumWeight(Range(call.result)))

\* C6, amended: when every answer of the backend is an exact minimizer of the
\* penalized model, the set returned by the exact call is a hitting set of
\* minimum total weight.
C6_ExactBackendMinimum ==
    (Returned("exact") /\ call.exact)
        => (IsHittingSet(Range(call.result)) /\ MinimumWeight(Range(call.result)))

C6_Witness ==
    /\ Returned("exact")
    /\ call.exact
    /\ Len(h.edges) = 2
    /\ weight_of(Vertices, h.weights) > 0
    /\ \E y \in SUBSET Vertices :
          /\ IsHittingSet(y)
          /\ weight_of(y, h.weights) > weight_of(Range(call.result), h.weights)

\* C7: the heuristic call ends the same way, with the same selection, as on
\* the hypergraph with the same n and edges and all weights zero; so any two
\* weightings of one hypergraph yield the same selection.
C7_WeightsIgnored ==
    Finished("heuristic")
        => LET z == hs_simple([h EXCEPT !.weights = [v \in DOMAIN h.weights |-> 0]])
           IN call.status = z.status /\ call.result = z.result

C7_Witness ==
    /\ Returned("heuristic")
    /\ \E v \in Vertices : h.weights[v] > 0 /\ v \in Range(call.result)
    /\ Len(h.edges) = 2

\* C8: after inserts with pairwise distinct keys and pairwise distinct
\* values, get_key and get_value are inverse to each other on what was
\* inserted, and report None on what was not.
PairwiseDistinct ==
    \A i, j \in 1..Len(inserted) :
        i # j => (inserted[i][1] # inserted[j][1] /\ inserted[i][2] # inserted[j][2])

InsertedKeys == {inserted[i][1] : i \in 1..Len(inserted)}

InsertedValues == {inserted[i][2] : i \in 1..Len(inserted)}

C8_Bijection ==
    PairwiseDistinct =>
        /\ \A i \in 1..Len(inserted) :
              /\ get_value(bimap, inserted[i][1]) = inserted[i][2]
              /\ get_key(bimap, inserted[i][2]) = inserted[i][1]
        /\ \A k \in InsertedKeys : get_key(bimap, get_value(bimap, k)) = k
        /\ \A v \in InsertedValues : get_value(bimap, get_key(bimap, v)) = v
        /\ \A k \in BiMapKeys \ InsertedKeys : get_value(bimap, k) = None
        /\ \A v \in Vertices \ InsertedValues : get_key(bimap, v) = None

C8_Witness ==
    /\ PairwiseDistinct
    /\ Len(inserted) = 2
    /\ BiMapKeys \ InsertedKeys # {}

\* C3: the loop of run ends, and it ends by the break after a satisfiable
\* query under A2 (CONVERGED) or by the break after a failed core extraction
\* (UNSAT_TERMINAL), never in another way.
C3_Original ==
    run.pc \in {"done", "raised"} => run.exit \in {"converged", "unsat"}

HardUnsat == Models(solver.phi, {}) = {}

\* C4: when the hard clauses alone are unsatisfiable, run ends by returning
\* the absent result.
C4_Original ==
    (HardUnsat /\ run.pc \in {"done", "raised"})
        => (run.pc = "done" /\ run.ret.absent)

SoftWeights == [i \in 1..Len(solver.relaxation) |-> solver.relaxation[i][2]]

Falsified ==
    {i \in 1..Len(solver.relaxation) :
        (0 - solver.relaxation[i][1]) \in Range(run.model)}

\* C5 as stated: for every non-absent result, cost is the sum of the weights
\* of the soft constraints whose assumption literal is false in the model,
\* and cost + fitness is the sum of the weights of all soft constraints.
C5_Original ==
    (run.pc = "done" /\ ~run.ret.absent)
        => /\ run.ret.cost = SumOver(Falsified, SoftWeights)
           /\ run.ret.cost + run.ret.fitness
                = SumOver(1..Len(solver.relaxation), SoftWeights)

ExactSums == SumOver(1..Len(solver.relaxation), SoftWeights) < 2^Precision

\* C5, amended: for every non-absent result whose soft weights are whole
\* numbers with a total below 2^Precision, so that no sum is rounded, cost is
\* the sum of the weights of the soft constraints whose assumption literal is
\* false in the model and cost + fitness is the sum of all soft weights.
C5_CostFitness ==
    (run.pc = "done" /\ ~run.ret.absent /\ ExactSums)
        => /\ run.ret.cost = SumOver(Falsified, SoftWeights)
           /\ run.ret.cost + run.ret.fitness
                = SumOver(1..Len(solver.relaxation), SoftWeights)

C5_Witness ==
    /\ run.pc = "done"
    /\ ~run.ret.absent
    /\ ExactSums
    /\ Len(solver.relaxation) = 2
    /\ Cardinality(Falsified) = 1
    /\ run.ret.cost = 1
    /\ run.ret.fitness = 2

\* C10: when a query fails and the engine has no core, core extraction
\* reports failure and the loop is left by the break of UNSAT_TERMINAL: run
\* goes on to return, without an error.
C10_Original ==
    run.core.none => (run.pc = "done" /\ run.exit = "unsat")

SingletonEdge == Len(h.edges) = 1 /\ Len(h.edges[1]) = 1

\* C9 as stated: with the single edge [v], either mode returns exactly {v}.
C9_Original ==
    (SingletonEdge /\ (Returned("heuristic") \/ Returned("exact")))
        => Range(call.result) = {h.edges[1][1]}

\* C9, amended: with the single edge [v], the heuristic returns the list [v];
\* the exact call, when the backend's answer selects v or selects nothing,
\* returns the vertices of the answer together with v; and every set the
\* exact call returns holds v.
C9_SingletonEdge ==
    SingletonEdge =>
        LET v == h.edges[1][1] IN
        /\ Finished("heuristic") =>
              (call.status = "returned" /\ call.result = <<v>>)
        /\ Returned("exact") => v \in Range(call.result)
        /\ \A S \in SUBSET Vertices :
              (S = {} \/ v \in S) =>
                  LET c == exact_result(exact_begin(h), S)
                  IN c.status = "returned" /\ Range(c.result) = S \cup {v}

C9_Witness ==
    /\ SingletonEdge
    /\ h.edges[1] = <<2>>
    /\ Returned("exact")
    /\ Range(call.result) = {0, 2}

(***************************************************************************)
(* Properties of the repair recursion.                                     *)
(***************************************************************************)
\* a step of the exact call that spawns a repair model
Spawns == call.status = "ipu" /\ call'.status = "ipu" /\ call'.depth = call.depth + 1

\* C11: whatever the backend answers (the stored edges being non-empty), a
\* repair model holds fewer edges than the model that spawned it: a strict
\* subset of them.
C11_Original ==
    [][(Spawns /\ NoEmptyEdge) => Len(call'.edges) < Len(call.edges)]_vars

(***************************************************************************)
(* Properties of the loop of Solver.run.                                   *)
(***************************************************************************)
\* the vertices of the hitting set behind the last query
HittingSetVertices == {get_value(bimap, k) : k \in run.hittingset}

LastEdge(g) == g.edges[Len(g.edges)]

\* C12: an edge added during run shares no vertex with the hitting set
\* whose assumption set failed, and run comes back to the head of its loop
\* only with one edge more than before.
C12_EdgeDisjoint ==
    [][/\ h' # h =>
            /\ Len(h'.edges) = Len(h.edges) + 1
            /\ Range(LastEdge(h')) \cap HittingSetVertices = {}
       /\ run'.pc = "heuristic" => Len(h'.edges) = Len(h.edges) + 1]_vars

C12_Witness ==
    /\ run.pc = "heuristic"
    /\ Len(h.edges) = 2
    /\ run.hittingset # {}
    /\ Len(LastEdge(h)) > 0
    /\ Range(LastEdge(h)) \cap HittingSetVertices = {}

\* a query has been issued and run has not gone on to the next hitting set
Queried == run.pc \in {"exact", "core", "done", "raised"}

\* C13: the assumption set of a query is the set of all relaxation variables
\* minus those mapped from the hitting set just computed (for A1 the
\* heuristic one), and a vertex's variable is left out of the assumption set
\* iff the vertex is in that hitting set.
C13_Assumptions ==
    Queried =>
        /\ sat.assumption = relaxation_vars(solver.relaxation) \ run.hittingset
        /\ run.assumption = sat.assumption
        /\ \A v \in 0..(h.n - 1) :
              get_key(bimap, v) \notin sat.assumption <=> v \in HittingSetVertices
        /\ run.pc = "exact" => HittingSetVertices = Range(hs_simple(h).result)

C13_Witness ==
    /\ run.pc = "done"
    /\ run.hittingset # {}
    /\ sat.assumption # {}
    /\ sat.assumption = relaxation_vars(solver.relaxation) \ run.hittingset

\* the assumption set A1 of the cycle that starts from the edges of h
A1 == assumption_of(bimap, solver.relaxation, hs_simple(h).result)

\* C14: run gets to the exact hitting-set computation (the only place where
\* the backend is called) only by a step that issued the query under the
\* heuristic's assumption set A1 of that cycle and found it satisfiable; when
\* that query fails, the cycle goes on to core extraction instead.
C14_ExactAfterA1 ==
    [][/\ run'.pc = "exact" =>
            /\ run.pc = "heuristic"
            /\ sat'.assumption = A1
            /\ Models(solver.phi, A1) # {}
       /\ (run.pc = "heuristic" /\ Models(solver.phi, A1) = {}) =>
            run'.pc = "core"]_vars

C14_Witness ==
    /\ run.pc = "exact"
    /\ Len(h.edges) = 2
    /\ sat.assumption = A1
    /\ Models(solver.phi, A1) # {}

Converged == run.exit = "converged"

UnsatTerminal == run.exit = "unsat"

\* C15: run enters CONVERGED only from a cycle whose queries under A1 and
\* under A2 were both satisfiable, and every cycle that issues the query
\* under A2 enters CONVERGED iff that query is satisfiable (A1 was, or A2
\* would not have been issued); once in CONVERGED or UNSAT_TERMINAL, run
\* issues no query, computes no hitting set and adds no edge.
C15_Converged ==
    [][/\ (Converged' /\ ~Converged) =>
            /\ run.pc = "exact"
            /\ sat.assumption = A1
            /\ Models(solver.phi, A1) # {}
            /\ sat'.assumption = run'.assumption
            /\ Models(solver.phi, run'.assumption) # {}
       /\ (run.pc = "exact" /\ run'.pc # "raised") =>
            (Converged' <=> Models(solver.phi, run'.assumption) # {})
       /\ (Converged \/ UnsatTerminal) => UNCHANGED <<run, sat, h, call>>]_vars

C15_Witness ==
    /\ Converged
    /\ run.pc = "done"
    /\ Len(h.edges) = 2
    /\ run.hittingset # {}
    /\ Models(solver.phi, run.assumption) # {}

(***************************************************************************)
(* Properties of the stored edges and of the selections.                   *)
(***************************************************************************)
\* C16: no step of add_edge or of compute_hs, in either mode and through
\* the repair, changes a stored edge or its position; the edge list changes
\* only by one edge appended at its end.
C16_AppendOnly ==
    [][\/ h'.edges = h.edges
       \/ /\ Len(h'.edges) = Len(h.edges) + 1
          /\ SubSeq(h'.edges, 1, Len(h.edges)) = h.edges]_vars

C16_Witness ==
    /\ Returned("exact")
    /\ call.depth = 2
    /\ Len(h.edges) = 2
    /\ h.edges[1] # h.edges[2]

\* the number of edges not yet covered that vertex v of call c is in
LiveSize(c, v) == Cardinality(c.watch[v])

\* the heap entry the next pass of the heuristic pops is stale
StalePop ==
    /\ call.queue # {}
    /\ -heap_min(call.queue)[1] # LiveSize(call, heap_min(call.queue)[2])

\* C17: a vertex that a pass of the heuristic appends to the result has, in
\* the state before the pass, a largest live watch set among all vertices; a
\* pass that pops a stale entry changes neither the result nor a watch set;
\* and on the edges [[0,1],[1,2]] over 3 vertices the heuristic returns [1].
C17_GreedySelection ==
    [][/\ (call.mode = "heuristic" /\ call.status = "running") =>
            /\ Len(call'.result) > Len(call.result) =>
                  /\ call'.result =
                        Append(call.result, call'.result[Len(call'.result)])
                  /\ \A w \in Vertices :
                        LiveSize(call, call'.result[Len(call'.result)])
                            >= LiveSize(call, w)
            /\ StalePop =>
                  /\ call'.result = call.result
                  /\ call'.watch = call.watch
                  /\ call'.status = "running"
       /\ (h'.edges = <<<<0, 1>>, <<1, 2>>>>
                /\ call'.mode = "heuristic"
                /\ call'.status \notin {"idle", "running"}) =>
            (call'.status = "returned" /\ call'.result = <<1>>)]_vars

C17_Witness ==
    /\ h.edges = <<<<0, 1>>, <<1, 2>>>>
    /\ Returned("heuristic")
    /\ call.result = <<1>>

\* the exact call is waiting for the backend's answer
AtBackend == call.mode = "exact" /\ call.status = "ipu"

\* C18: in exact mode on stored edges (non-empty ones, as the data model has
\* them), the selection that the repair step checks is never empty, and when
\* the backend's answer selects no vertex it is the first vertex of the first
\* edge of the model asked; with no stored edge the call returns the empty
\* list.
C18_ForcedSelection ==
    [][/\ (AtBackend /\ NoEmptyEdge /\ call' # call) =>
            /\ call'.status # "IndexError"
            /\ call'.status # "RecursionError" =>
                  /\ Len(call'.result) > Len(call.result)
                  /\ call' = exact_result(call, {}) =>
                        call'.result = Append(call.result, call.edges[1][1])
       /\ (call'.mode = "exact" /\ Len(h'.edges) = 0) =>
            (call'.status = "returned" /\ call'.result = <<>>)]_vars

C18_Witness ==
    /\ Returned("exact")
    /\ h.edges = <<<<2, 1>>, <<0>>>>
    /\ call.depth = 2
    /\ call.result = <<2, 0>>

\* C19: the repair model has the vertices and the vertex weights of the
\* model that spawned it.
C19_Original ==
    [][Spawns =>
            /\ DOMAIN call'.weights = DOMAIN call.weights
            /\ call'.weights = call.weights]_vars

(***************************************************************************)
(* Properties of the result of Solver.run.                                 *)
(***************************************************************************)
\* the soft constraints (by position) that the last hitting set holds
HittingSetSoft ==
    {i \in 1..Len(solver.relaxation) : solver.relaxation[i][1] \in run.hittingset}

\* C20 as stated: in a non-absent result, every soft constraint whose
\* assumption literal is false in the model is in the exact hitting set of
\* the final cycle, and cost is at most the total weight of that hitting set.
C20_Original ==
    (run.pc = "done" /\ ~run.ret.absent)
        => /\ Falsified \subseteq HittingSetSoft
           /\ run.ret.cost <= SumOver(HittingSetSoft, SoftWeights)

\* C20, amended: in a non-absent result, every soft constraint whose
\* assumption literal is false in the model is in the exact hitting set of
\* the final cycle; cost is at most the floating-point sum of the weights of
\* that hitting set, added in the order in which cost is added up, and at
\* most their total when no sum is rounded.
C20_CostBound ==
    (run.pc = "done" /\ ~run.ret.absent)
        => /\ Falsified \subseteq HittingSetSoft
           /\ run.ret.cost <= fsum(0, HittingSetSoft, SoftWeights)
           /\ ExactSums => run.ret.cost <= SumOver(HittingSetSoft, SoftWeights)

C20_Witness ==
    /\ run.pc = "done"
    /\ ~run.ret.absent
    /\ Cardinality(HittingSetSoft) = 2
    /\ Cardinality(Falsified) = 1
    /\ run.ret.cost > 0
    /\ run.ret.cost < fsum(0, HittingSetSoft, SoftWeights)

(***************************************************************************)
(* Properties of the heuristic's list and of the edges run stores.         *)
(***************************************************************************)
NoRepeatedVertex ==
    \A i \in 1..Len(h.edges) : Cardinality(Range(h.edges[i])) = Len(h.edges[i])

\* C21: on edges without repeated vertices, a vertex that a pass of the
\* heuristic appends is not in the list yet and is in a stored edge that no
\* vertex of the list is in; the list returned holds no vertex twice and at
\* most as many vertices as there are stored edges.
C21_NewEdgePerVertex ==
    [][(NoRepeatedVertex /\ call.mode = "heuristic" /\ call.status = "running") =>
            /\ Len(call'.result) > Len(call.result) =>
                  LET v == call'.result[Len(call'.result)] IN
                  /\ v \notin Range(call.result)
                  /\ \E i \in 1..Len(h.edges) :
                        /\ v \in Range(h.edges[i])
                        /\ ~hits(Range(call.result), h.edges[i])
            /\ call'.status = "returned" =>
                  /\ Cardinality(Range(call'.result)) = Len(call'.result)
                  /\ Len(call'.result) <= Len(h.edges)]_vars

C21_Witness ==
    /\ NoRepeatedVertex
    /\ Returned("heuristic")
    /\ Len(h.edges) = 2
    /\ Len(call.result) = 2

DistinctEdgeSets ==
    \A i, j \in 1..Len(h.edges) :
        i # j => Range(h.edges[i]) # Range(h.edges[j])

\* C22: at every point of run, as long as every core was non-empty (so
\* that no stored edge is empty), no two stored edges have the same set of
\* vertices.
C22_DistinctEdges == NoEmptyEdge => DistinctEdgeSets

C22_Witness ==
    /\ Len(h.edges) = 3
    /\ NoEmptyEdge
    /\ DistinctEdgeSets
    /\ run.pc = "heuristic"

====
